---- MODULE Spec2Model ----
(***************************************************************************)
(* UpdateList.py: clear_dir wipes the working directory except a keep-set, *)
(* copy_dir copies a source tree into a fresh destination through an       *)
(* ignore filter, and the module body runs clear, two copies, the          *)
(* submodule update and the push prompt in sequence.                       *)
(*                                                                         *)
(* A path is the sequence of its components below the file-system root.    *)
(* A Python string that names an entry or a relative path is a sequence of *)
(* tokens: names separated by Sep ("bin" is <<"bin">>, "sub/inner.txt" is  *)
(* <<"sub", "/", "inner.txt">>).  A file system is a function from the     *)
(* existing paths to Dir or to a file's content.                           *)
(***************************************************************************)
EXTENDS Naturals, Sequences, FiniteSets, TLC

VARIABLES fs, pc, log, raised, call, steps, answer

vars == <<fs, pc, log, raised, call, steps, answer>>

(* ------------------------------ bounds --------------------------------- *)

MaxEntries == 4

MaxMembers == 2

MaxScriptEntries == 1

(* --------------------------- paths, strings ---------------------------- *)

Names == {"sub", "inner.txt"}

Contents == {"c1", "c2"}

Dir == "dir"

Sep == "/"

Root == <<>>

NoFault == <<"<none>">>

IsPrefix(p, q) == Len(p) <= Len(q) /\ SubSeq(q, 1, Len(p)) = p

Under(p, q) == Len(p) < Len(q) /\ IsPrefix(p, q)

Exists(f, p) == p \in DOMAIN f

IsDir(f, p) == p \in DOMAIN f /\ f[p] = Dir

Join(p, name) == Append(p, name)

ListDir(f, p) ==
    { q[Len(p) + 1] : q \in { r \in DOMAIN f : Len(r) = Len(p) + 1 /\ IsPrefix(p, r) } }

RECURSIVE JoinTokens(_)
JoinTokens(parts) ==
    IF Len(parts) = 0 THEN <<>>
    ELSE IF Len(parts) = 1 THEN <<parts[1]>>
    ELSE <<parts[1], Sep>> \o JoinTokens(Tail(parts))

RECURSIVE CommonLen(_, _)
CommonLen(p, q) ==
    IF Len(p) = 0 \/ Len(q) = 0 \/ Head(p) # Head(q) THEN 0
    ELSE 1 + CommonLen(Tail(p), Tail(q))

RelPath(p, start) ==
    LET k == CommonLen(p, start)
        ups == [i \in 1..(Len(start) - k) |-> ".."]
        parts == ups \o SubSeq(p, k + 1, Len(p))
    IN IF Len(parts) = 0 THEN <<".">> ELSE JoinTokens(parts)

Restrict(f, S) == [q \in S |-> f[q]]

(* ------------------------------ clear_dir ------------------------------ *)

RmTree(f, p) ==
    IF IsDir(f, p) THEN Restrict(f, { q \in DOMAIN f : ~IsPrefix(p, q) })
    ELSE f

RECURSIVE RmTreeEach(_, _, _)
RmTreeEach(f, path, items) ==
    IF items = {} THEN f
    ELSE LET item == CHOOSE i \in items : TRUE
         IN RmTreeEach(RmTree(f, Join(path, item)), path, items \ {item})

ClearDirWalk(f, path, keep) ==
    IF ~Exists(f, path) THEN [fs |-> f, raised |-> "FileNotFoundError"]
    ELSE IF ~IsDir(f, path) THEN [fs |-> f, raised |-> "NotADirectoryError"]
    ELSE LET doomed == { q \in DOMAIN f : Under(path, q) /\ IsDir(f, q)
                                           /\ <<q[Len(q)]>> \notin keep }
         IN [fs |-> Restrict(f, { q \in DOMAIN f : \A p \in doomed : ~IsPrefix(p, q) }),
             raised |-> "none"]

ClearDir(f, path, keep) ==
    IF ~Exists(f, path) THEN [fs |-> f, raised |-> "FileNotFoundError"]
    ELSE IF ~IsDir(f, path) THEN [fs |-> f, raised |-> "NotADirectoryError"]
    ELSE [fs |-> RmTreeEach(f, path, { item \in ListDir(f, path) : <<item>> \notin keep }),
          raised |-> "none"]

(* ------------------------------ copy_dir ------------------------------- *)

IgnoreRelPathOnly(path, names, src, exclude) ==
    { name \in names : RelPath(Join(path, name), src) \in exclude }

IgnoreByBaseName(path, names, src, exclude) ==
    { name \in names : \E m \in exclude : m[Len(m)] = name }

Ignore(path, names, src, exclude) ==
    { name \in names :
        RelPath(Join(path, name), src) \in exclude \/ <<name>> \in exclude }

Failure(exc) == [made |-> {}, errors |-> {}, exc |-> exc]

MakeDirs(f, d) ==
    { <<SubSeq(d, 1, i), Dir>> : i \in { j \in 0..Len(d) : ~Exists(f, SubSeq(d, 1, j)) } }

BlockedByFile(f, d) ==
    \E i \in 0..(Len(d) - 1) : Exists(f, SubSeq(d, 1, i)) /\ ~IsDir(f, SubSeq(d, 1, i))

CopyFileTruncated(f, s, d, fault) ==
    IF s = fault THEN [made |-> {}, errors |-> {s}, exc |-> "none"]
    ELSE [made |-> {<<d, "">>}, errors |-> {}, exc |-> "none"]

CopyFile(f, s, d, fault) ==
    IF s = fault THEN [made |-> {}, errors |-> {s}, exc |-> "none"]
    ELSE [made |-> {<<d, f[s]>>}, errors |-> {}, exc |-> "none"]

ScanError(f, s, fault) ==
    IF ~Exists(f, s) THEN "FileNotFoundError"
    ELSE IF ~IsDir(f, s) THEN "NotADirectoryError"
    ELSE IF s = fault THEN "PermissionError"
    ELSE "none"

MakeDirsErrorExistOk(f, d, fault) ==
    IF BlockedByFile(f, d) THEN "NotADirectoryError"
    ELSE IF d = fault THEN "PermissionError"
    ELSE "none"

MakeDirsError(f, d, fault) ==
    IF Exists(f, d) THEN "FileExistsError"
    ELSE IF BlockedByFile(f, d) THEN "NotADirectoryError"
    ELSE IF d = fault THEN "PermissionError"
    ELSE "none"

Collect(f, s, d, sub) ==
    LET errs == UNION { IF sub[n].exc \notin {"none", "Error"}
                        THEN {Join(s, n)} ELSE sub[n].errors : n \in DOMAIN sub }
    IN [ made |-> MakeDirs(f, d) \cup UNION { sub[n].made : n \in DOMAIN sub },
         errors |-> errs,
         exc |-> IF errs = {} THEN "none" ELSE "Error" ]

RECURSIVE CopyTreeMkdirFirst(_, _, _, _, _, _)
CopyTreeMkdirFirst(f, s, d, src, exclude, fault) ==
    IF MakeDirsError(f, d, fault) # "none" THEN Failure(MakeDirsError(f, d, fault))
    ELSE IF ScanError(f, s, fault) # "none"
    THEN [made |-> MakeDirs(f, d), errors |-> {}, exc |-> ScanError(f, s, fault)]
    ELSE LET names == ListDir(f, s)
             ignored == Ignore(s, names, src, exclude)
         IN Collect(f, s, d,
                [ n \in names \ ignored |->
                    IF IsDir(f, Join(s, n))
                    THEN CopyTreeMkdirFirst(f, Join(s, n), Join(d, n), src, exclude, fault)
                    ELSE CopyFile(f, Join(s, n), Join(d, n), fault) ])

RECURSIVE CopyTree(_, _, _, _, _, _)
CopyTree(f, s, d, src, exclude, fault) ==
    IF ScanError(f, s, fault) # "none" THEN Failure(ScanError(f, s, fault))
    ELSE LET names == ListDir(f, s)
             ignored == Ignore(s, names, src, exclude)
         IN IF MakeDirsError(f, d, fault) # "none" THEN Failure(MakeDirsError(f, d, fault))
            ELSE Collect(f, s, d,
                     [ n \in names \ ignored |->
                         IF IsDir(f, Join(s, n))
                         THEN CopyTree(f, Join(s, n), Join(d, n), src, exclude, fault)
                         ELSE CopyFile(f, Join(s, n), Join(d, n), fault) ])

Apply(f, made) ==
    LET new == { m[1] : m \in made } \ DOMAIN f
    IN [ q \in DOMAIN f \cup new |->
           IF q \in DOMAIN f THEN f[q] ELSE (CHOOSE m \in made : m[1] = q)[2] ]

IsOnlyFileNotFound(exc) == exc = "FileNotFoundError"

IsException(exc) ==
    exc \in {"FileNotFoundError", "NotADirectoryError", "FileExistsError",
             "PermissionError", "Error"}

CopyingLine(src, cwd) == [kind |-> "Copying", src |-> RelPath(src, cwd), err |-> "none"]

FailedLine(src, exc) == [kind |-> "Failed to copy", src |-> src, err |-> exc]

CopyDir(f, lg, src, dst, exclude, fault, cwd) ==
    LET r == CopyTree(f, src, dst, src, exclude, fault)
        started == Append(lg, CopyingLine(src, cwd))
    IN IF r.exc = "none"
       THEN [fs |-> Apply(f, r.made), log |-> started, raised |-> "none", ok |-> TRUE]
       ELSE IF IsException(r.exc)
       THEN [fs |-> Apply(f, r.made), log |-> Append(started, FailedLine(src, r.exc)),
             raised |-> "none", ok |-> FALSE]
       ELSE [fs |-> Apply(f, r.made), log |-> started, raised |-> r.exc, ok |-> FALSE]

(* ------------------------- bounded file systems ------------------------ *)

Extend(t, names, contents) ==
    { t @@ (q :> v) :
        q \in { Join(p, n) : p \in { r \in DOMAIN t : t[r] = Dir }, n \in names } \ DOMAIN t,
        v \in {Dir} \cup contents }

RECURSIVE TreesOf(_, _, _)
TreesOf(names, contents, k) ==
    IF k = 0 THEN { Root :> Dir }
    ELSE LET smaller == TreesOf(names, contents, k - 1)
         IN smaller \cup UNION { Extend(t, names, contents) : t \in smaller }

Graft(t, at) == [ q \in { at \o p : p \in DOMAIN t } |-> t[SubSeq(q, Len(at) + 1, Len(q))] ]

Absent == [ q \in {} |-> Dir ]

FileSystems == TreesOf(Names, Contents, MaxEntries)

ArgPaths == { <<n>> : n \in Names }

Members == { <<n>> : n \in Names } \cup { <<a, Sep, b>> : a \in Names, b \in Names }

MemberSets == { S \in SUBSET Members : Cardinality(S) <= MaxMembers }

Faults(f, src, dst) == {NoFault} \cup { q \in DOMAIN f : IsPrefix(src, q) } \cup {dst}

NoCall ==
    [op |-> "none", a |-> Root, b |-> Root, set |-> {}, fault |-> NoFault,
     pre |-> Absent, prelog |-> <<>>, ok |-> FALSE, n |-> 0]

(* ------------------- the two functions, called once -------------------- *)

InitOps ==
    /\ fs \in FileSystems
    /\ pc = "idle"
    /\ log = <<>>
    /\ raised = "none"
    /\ call = NoCall
    /\ steps = <<>>
    /\ answer = <<>>

CallClearDir ==
    /\ pc = "idle"
    /\ \E path \in {Root} \cup ArgPaths, keep \in MemberSets :
         LET r == ClearDir(fs, path, keep)
         IN /\ fs' = r.fs
            /\ raised' = r.raised
            /\ call' = [op |-> "clear_dir", a |-> path, b |-> Root, set |-> keep,
                        fault |-> NoFault, pre |-> fs, prelog |-> log,
                        ok |-> (r.raised = "none"), n |-> 1]
    /\ pc' = "called"
    /\ UNCHANGED <<log, steps, answer>>

CallCopyDir ==
    /\ pc = "idle"
    /\ \E src \in ArgPaths, dst \in ArgPaths, exclude \in MemberSets :
         \E fault \in Faults(fs, src, dst) :
           LET r == CopyDir(fs, log, src, dst, exclude, fault, Root)
           IN /\ fs' = r.fs
              /\ log' = r.log
              /\ raised' = r.raised
              /\ call' = [op |-> "copy_dir", a |-> src, b |-> dst, set |-> exclude,
                          fault |-> fault, pre |-> fs, prelog |-> log, ok |-> r.ok, n |-> 1]
    /\ pc' = "called"
    /\ UNCHANGED <<steps, answer>>

CallCopyDirAgain ==
    /\ pc = "called"
    /\ call.op = "copy_dir"
    /\ call.n = 1
    /\ raised = "none"
    /\ LET r == CopyDir(fs, log, call.a, call.b, call.set, call.fault, Root)
       IN /\ fs' = r.fs
          /\ log' = r.log
          /\ raised' = r.raised
          /\ call' = [call EXCEPT !.pre = fs, !.prelog = log, !.ok = r.ok, !.n = 2]
    /\ UNCHANGED <<pc, steps, answer>>

NextOps == CallClearDir \/ CallCopyDir \/ CallCopyDirAgain

OpSpec == InitOps /\ [][NextOps]_vars

(* ------------------------------ the script ----------------------------- *)

Cwd == <<"repo">>

HasteModding == <<"HasteModding">>

SettingsLibSrc == <<"HasteModding", "SettingsLib">>

SettingsLibDst == <<"repo", "SettingsLib">>

InformerSrc == <<"HasteModding", "Informer">>

InformerDst == <<"repo", "Informer">>

ScriptKeep == {<<"UpdateList.py">>, <<".git">>, <<".gitignore">>, <<".gitmodules">>, <<"README.md">>}

ScriptExclude == {<<"bin">>, <<".git">>, <<"obj">>, <<".vs">>}

CwdNames == {"README.md", "SettingsLib"}

SrcNames == {"bin", "Program.cs"}

ScriptContents == {"c1"}

CwdTrees == TreesOf(CwdNames, ScriptContents, MaxScriptEntries)

SrcTrees == {Absent} \cup TreesOf(SrcNames, ScriptContents, MaxScriptEntries)

ScriptFileSystems ==
    { (Root :> Dir) @@ (HasteModding :> Dir) @@ Graft(cw, Cwd)
        @@ Graft(s1, SettingsLibSrc) @@ Graft(s2, InformerSrc) :
        cw \in CwdTrees, s1 \in SrcTrees, s2 \in SrcTrees }

EndOfInput == <<"<EOF>">>

Answers ==
    { <<>>, <<"y">>, <<"Y">>, <<"n">>, <<"N">>, <<"y", "e", "s">>, <<"Y", "E", "S">>,
      <<" ", "y">>, <<"y", "y">> }

LowerChar(c) ==
    CASE c = "Y" -> "y"
      [] c = "N" -> "n"
      [] c = "E" -> "e"
      [] c = "S" -> "s"
      [] OTHER -> c

Lower(s) == [ i \in 1..Len(s) |-> LowerChar(s[i]) ]

PushAcceptedExact(a) == a = <<"y">>

PushAccepted(a) == Lower(a) = <<"y">>

Step(op, arg, ok) == [op |-> op, arg |-> arg, ok |-> ok]

Init ==
    /\ fs \in ScriptFileSystems
    /\ pc = "clear"
    /\ log = <<>>
    /\ raised = "none"
    /\ call = NoCall
    /\ steps = <<>>
    /\ answer = <<>>

RunClearDir ==
    /\ pc = "clear"
    /\ LET r == ClearDir(fs, Cwd, ScriptKeep)
       IN /\ fs' = r.fs
          /\ raised' = r.raised
          /\ pc' = IF r.raised = "none" THEN "copy1" ELSE "aborted"
          /\ call' = [op |-> "clear_dir", a |-> Cwd, b |-> Root, set |-> ScriptKeep,
                      fault |-> NoFault, pre |-> fs, prelog |-> log,
                      ok |-> (r.raised = "none"), n |-> 1]
          /\ steps' = Append(steps, Step("clear_dir", Cwd, r.raised = "none"))
    /\ UNCHANGED <<log, answer>>

RunCopy(at, next, src, dst) ==
    /\ pc = at
    /\ \E fault \in Faults(fs, src, dst) :
         LET r == CopyDir(fs, log, src, dst, ScriptExclude, fault, Cwd)
         IN /\ fs' = r.fs
            /\ log' = r.log
            /\ raised' = r.raised
            /\ pc' = IF r.raised = "none" THEN next ELSE "aborted"
            /\ call' = [op |-> "copy_dir", a |-> src, b |-> dst, set |-> ScriptExclude,
                        fault |-> fault, pre |-> fs, prelog |-> log, ok |-> r.ok, n |-> 1]
            /\ steps' = Append(steps, Step("copy_dir", src, r.ok))
    /\ UNCHANGED answer

RunCopySettingsLib == RunCopy("copy1", "copy2", SettingsLibSrc, SettingsLibDst)

RunCopyInformer == RunCopy("copy2", "submodule", InformerSrc, InformerDst)

RunSubmoduleUpdate ==
    /\ pc = "submodule"
    /\ steps' = Append(steps, Step("git submodule update", Cwd, TRUE))
    /\ pc' = "prompt"
    /\ UNCHANGED <<fs, log, raised, call, answer>>

RunPrompt ==
    /\ pc = "prompt"
    /\ \E a \in Answers \cup {EndOfInput} :
         /\ answer' = a
         /\ raised' = IF a = EndOfInput THEN "EOFError" ELSE "none"
         /\ pc' = IF a = EndOfInput THEN "aborted"
                  ELSE IF PushAccepted(a) THEN "push" ELSE "finish"
    /\ steps' = Append(steps, Step("input", Cwd, TRUE))
    /\ UNCHANGED <<fs, log, call>>

RunPush ==
    /\ pc = "push"
    /\ steps' = Append(steps, Step("git add commit push", Cwd, TRUE))
    /\ pc' = "finish"
    /\ UNCHANGED <<fs, log, raised, call, answer>>

RunFinish ==
    /\ pc = "finish"
    /\ log' = Append(log, [kind |-> "Finished.", src |-> Root, err |-> "none"])
    /\ pc' = "done"
    /\ UNCHANGED <<fs, raised, call, steps, answer>>

Next ==
    \/ RunClearDir
    \/ RunCopySettingsLib
    \/ RunCopyInformer
    \/ RunSubmoduleUpdate
    \/ RunPrompt
    \/ RunPush
    \/ RunFinish

Spec == Init /\ [][Next]_vars

(* ------------------------------ properties ----------------------------- *)

ChildrenOf(f, p) == { q \in DOMAIN f : Len(q) = Len(p) + 1 /\ IsPrefix(p, q) }

ClearReturned == call.op = "clear_dir" /\ call.ok

CopyCalled == call.op = "copy_dir"

CopySucceeded == call.op = "copy_dir" /\ call.ok

Dest(q) == call.b \o SubSeq(q, Len(call.a) + 1, Len(q))

Matches(e) == <<e[Len(e)]>> \in call.set \/ RelPath(e, call.a) \in call.set

SrcEntries == { e \in DOMAIN call.pre : Under(call.a, e) }

SrcFiles == { e \in SrcEntries : call.pre[e] # Dir }

UnderExcluded(e) == \E r \in SrcEntries : IsPrefix(r, e) /\ Matches(r)

CopiedIntact(e) == Dest(e) \in DOMAIN fs /\ fs[Dest(e)] = call.pre[e]

FailedLines == { log[i] : i \in { j \in DOMAIN log : log[j].kind = "Failed to copy" } }

\* C1: after clear_dir(path, keep) returns, every remaining direct child of
\* path has a name in keep, and every direct child whose name was not in
\* keep is absent, file or directory alike.
C1_OnlyKeptChildrenRemain ==
    ClearReturned =>
        /\ \A q \in ChildrenOf(fs, call.a) : <<q[Len(q)]>> \in call.set
        /\ \A q \in ChildrenOf(call.pre, call.a) :
              <<q[Len(q)]>> \notin call.set => q \notin DOMAIN fs

\* C2 (as claimed): after a successful copy_dir, every file under src whose
\* name is not in exclude and whose path relative to src is not in exclude
\* is at the corresponding place under dst with identical content.
C2_EveryUnmatchedFileCopied ==
    CopySucceeded => \A e \in SrcFiles : ~Matches(e) => CopiedIntact(e)

\* C2 (amended): after a successful copy_dir, every file under src such that
\* neither the file nor any directory between src and the file has its name
\* or its path relative to src in exclude is at the corresponding place
\* under dst with identical content.
C2_EveryReachableFileCopied ==
    CopySucceeded => \A e \in SrcFiles : ~UnderExcluded(e) => CopiedIntact(e)

C2_Witness ==
    /\ CopySucceeded
    /\ call.set # {}
    /\ \E e \in SrcFiles :
         /\ Len(e) >= Len(call.a) + 2
         /\ ~UnderExcluded(e)
         /\ CopiedIntact(e)
    /\ \E e \in SrcFiles : UnderExcluded(e)

\* C3: after a successful copy_dir, no entry whose name or whose path
\* relative to src is in exclude appears anywhere under dst, and nothing
\* below an excluded directory appears either.
C3_NoExcludedEntryUnderDst ==
    CopySucceeded =>
        /\ \A e \in SrcEntries :
              Matches(e) => \A q \in DOMAIN fs : ~IsPrefix(Dest(e), q)
        /\ \A q \in DOMAIN fs :
              Under(call.b, q) =>
                  /\ <<q[Len(q)]>> \notin call.set
                  /\ RelPath(q, call.b) \notin call.set

C3_Witness ==
    /\ CopySucceeded
    /\ \E e \in SrcEntries :
         /\ Matches(e)
         /\ call.pre[e] = Dir
         /\ \E c \in SrcEntries : Under(e, c)
    /\ \E e \in SrcFiles : CopiedIntact(e)

\* C4: every failure inside copy_dir is caught: no copy step leaves an
\* exception to the script, a failed copy has a failure line naming its src
\* and the error, the script stands at its next statement after a copy
\* (failed or not), it never aborts on a copy, and a finished run has
\* executed the clear, both copies, the submodule update and the prompt.
C4_CopyFailuresAreSwallowed ==
    /\ \A i \in DOMAIN steps :
          (steps[i].op = "copy_dir" /\ ~steps[i].ok) =>
              \E l \in FailedLines : l.src = steps[i].arg /\ l.err # "none"
    /\ (Len(steps) > 0 /\ steps[Len(steps)].op = "copy_dir") =>
          /\ raised = "none"
          /\ pc = (IF Len(steps) = 2 THEN "copy2" ELSE "submodule")
    /\ pc = "aborted" => steps[Len(steps)].op # "copy_dir"
    /\ pc = "done" =>
          /\ Len(steps) >= 5
          /\ [i \in 1..5 |-> steps[i].op] =
                <<"clear_dir", "copy_dir", "copy_dir", "git submodule update", "input">>

C4_Witness ==
    /\ pc = "done"
    /\ ~steps[2].ok
    /\ ~steps[3].ok
    /\ \E l \in FailedLines : l.src = SettingsLibSrc /\ l.err = "FileExistsError"
    /\ \E l \in FailedLines : l.src = InformerSrc /\ l.err = "Error"

\* C5: clear_dir(path, keep) on a path that does not exist or has no
\* children returns without raising and leaves the file system unchanged.
C5_ClearOfMissingOrEmptyIsNoOp ==
    (call.op = "clear_dir"
        /\ (~Exists(call.pre, call.a) \/ ChildrenOf(call.pre, call.a) = {}))
    => (raised = "none" /\ fs = call.pre)

\* C6: whenever dst exists when copy_dir is invoked, the copy fails, nothing
\* is copied and the file system is unchanged; so a second invocation with
\* the same dst after a first one that created it fails.
C6_ExistingDstFails ==
    (CopyCalled /\ Exists(call.pre, call.b)) =>
        /\ ~call.ok
        /\ fs = call.pre
        /\ \E l \in FailedLines : l.src = call.a

C6_Witness ==
    /\ CopyCalled
    /\ call.n = 2
    /\ Len(log) = 3
    /\ log[3] = FailedLine(call.a, "FileExistsError")
    /\ \E e \in SrcFiles : CopiedIntact(e)

\* C7: copy_dir with a src that does not exist lets no exception out, logs
\* a failure line naming src, and leaves the file system as it was (dst is
\* not created).
C7_MissingSrcIsLoggedOnly ==
    (CopyCalled /\ ~Exists(call.pre, call.a)) =>
        /\ raised = "none"
        /\ ~call.ok
        /\ fs = call.pre
        /\ log = call.prelog \o <<CopyingLine(call.a, Root), FailedLine(call.a, "FileNotFoundError")>>

C7_Witness ==
    /\ CopyCalled
    /\ call.n = 1
    /\ ~Exists(call.pre, call.a)
    /\ ~Exists(call.pre, call.b)
    /\ ~Exists(fs, call.b)
    /\ Len(log) = 2

\* C8: a relative-path member of exclude skips only the entry at exactly
\* that path relative to src (with what lies below it): the copy differs
\* from the copy made without that member only below that path, and an
\* entry of the same base name elsewhere is still copied; a bare-name
\* member skips every entry of that name at every depth.
C8_PathMemberSkipsOnlyThatPath ==
    CopySucceeded =>
        \A m \in call.set :
            IF Len(m) > 1
            THEN LET there == { e \in SrcEntries : RelPath(e, call.a) = m }
                     without == Apply(call.pre,
                                      CopyTree(call.pre, call.a, call.b, call.a,
                                               call.set \ {m}, call.fault).made)
                 IN /\ \A e \in there : Dest(e) \notin DOMAIN fs
                    /\ \A q \in DOMAIN fs \cup DOMAIN without :
                          (q \in DOMAIN fs /\ q \in DOMAIN without /\ fs[q] = without[q])
                          \/ \E e \in there : IsPrefix(Dest(e), q)
                    /\ \A e \in SrcFiles :
                          (e[Len(e)] = m[Len(m)] /\ ~UnderExcluded(e)) => CopiedIntact(e)
            ELSE \A q \in DOMAIN fs :
                    Under(call.b, q) =>
                        \A i \in (Len(call.b) + 1)..Len(q) : q[i] # m[1]

C8_Witness ==
    /\ CopySucceeded
    /\ call.set = {<<"sub", Sep, "inner.txt">>}
    /\ Join(Join(call.a, "sub"), "inner.txt") \in SrcFiles
    /\ Join(call.a, "inner.txt") \in SrcFiles
    /\ CopiedIntact(Join(call.a, "inner.txt"))
    /\ Dest(Join(Join(call.a, "sub"), "inner.txt")) \notin DOMAIN fs
    /\ Dest(Join(call.a, "sub")) \in DOMAIN fs

\* C9: clear_dir leaves every direct child of path whose name is in keep,
\* with its whole subtree, unchanged, whatever the names nested inside it.
C9_KeptSubtreesUntouched ==
    ClearReturned =>
        \A q \in DOMAIN call.pre :
            (Under(call.a, q) /\ <<q[Len(call.a) + 1]>> \in call.set)
            => (q \in DOMAIN fs /\ fs[q] = call.pre[q])

C9_Witness ==
    /\ ClearReturned
    /\ fs # call.pre
    /\ \E q \in DOMAIN fs :
         /\ Under(call.a, q)
         /\ Len(q) = Len(call.a) + 2
         /\ <<q[Len(call.a) + 1]>> \in call.set
         /\ <<q[Len(q)]>> \notin call.set
         /\ call.pre[q] = Dir

PushSteps == { i \in DOMAIN steps : steps[i].op = "git add commit push" }

CopySteps(src) == { i \in DOMAIN steps : steps[i].op = "copy_dir" /\ steps[i].arg = src }

\* C10: the add/commit/push sequence runs at most once, only after the
\* clear, the SettingsLib copy, the Informer copy and the submodule update
\* have run once each in that order, and it runs if and only if the answer
\* read is "y" or "Y".
C10_PushOnlyOnYesAfterAllSteps ==
    /\ Cardinality(PushSteps) <= 1
    /\ Cardinality(CopySteps(SettingsLibSrc)) <= 1
    /\ Cardinality(CopySteps(InformerSrc)) <= 1
    /\ \A i \in PushSteps :
          /\ i = 6
          /\ [j \in 1..5 |-> <<steps[j].op, steps[j].arg>>] =
                << <<"clear_dir", Cwd>>, <<"copy_dir", SettingsLibSrc>>,
                   <<"copy_dir", InformerSrc>>, <<"git submodule update", Cwd>>,
                   <<"input", Cwd>> >>
          /\ answer \in {<<"y">>, <<"Y">>}
    /\ pc = "done" => (PushSteps # {} <=> answer \in {<<"y">>, <<"Y">>})

C10_Witness ==
    /\ pc = "done"
    /\ answer = <<"Y">>
    /\ PushSteps = {6}

====
